---- MODULE Spec2Model ----
(***************************************************************************)
(* FloralID-Pro: the Analyze component (src/components/Analyze.tsx), the   *)
(* classification client (services/geminiService, src/unnamed/part_000)    *)
(* and the App state they share (src/App.tsx).                             *)
(*                                                                         *)
(* One action is one macrotask of the browser's event loop: a user event,  *)
(* or the completion of one awaited operation together with everything the *)
(* continuation runs synchronously up to its next await.  React state read *)
(* by a handler is the state of the render the handler was created in: a   *)
(* run keeps the profiles and batchProgress of the render that started it. *)
(***************************************************************************)
EXTENDS Integers, Sequences, FiniteSets, TLC

\* ------------------------------------------------------------------ bounds
MaxFiles == 3          \* most files one selection holds
MaxRuns == 2           \* runs (handleFileUpload / shutter clicks) per behaviour
MaxTotalFiles == 4     \* most images all runs of a behaviour hold together
MaxMounts == 1         \* times the Analyze view is mounted
MaxPendingCam == 1     \* getUserMedia requests pending at once, per instance
MaxLeak == 2           \* unreferenced live streams that are counted
MaxWaitTicks == 2      \* clock ticks a geolocation wait is followed for
MaxCallTicks == 1      \* clock ticks a classification call is followed for
CallTickMs == 500      \* milliseconds of one tick of a call's clock

\* ------------------------------------------------------- program constants
GeoTimeout == 3000     \* { timeout: 3000 }
TickMs == GeoTimeout   \* the model's clock advances by one timeout a tick
Unknown == "unknown"   \* the schema's no-match sentinel
ProfileIds == {"p1"}
Sources == {"upload", "folder", "video", "camera"}
BulkActions == {"favorite", "incorrect", "delete"}
RequiredFields == {"name", "scientificName", "isInvasive", "confidence",
                   "description", "matchedProfileId"}

Null == <<>>           \* null (batchProgress, timerRef.current)
Undefined == "undefined"
NoError == "null"
ErrCamera == "Unable to access camera. Please check permissions."
ErrEmptyDb == "Training Database is empty. Identification requires at least one profile."
ErrEmptyDbService == "Training database is empty. Please add plant profiles first."
ErrIdentification == "Identification failed."
ErrThrown == "message of an Error the platform threw"

Runs == 1..MaxRuns
Items == 1..MaxFiles
Insts == 1..MaxMounts

VARIABLES
    view,           \* App.currentView: "ANALYZE" or "OTHER" (Analyze mounted or not)
    profiles,       \* App.profiles, as the set of profile ids
    history,        \* App.history, newest first: run, item and flags of each record
    inst,           \* the mounted (or last mounted) Analyze instance, 0 before any
    source,         \* Analyze.source
    isAnalyzing,    \* Analyze.isAnalyzing
    batchProgress,  \* Analyze.batchProgress: Null or <<current, total>>
    error,          \* Analyze.error
    timerRef,       \* timerRef.current of every instance: Null or an interval id
    intervals,      \* the intervals window.setInterval created and nobody cleared
    srcObject,      \* videoRef.current.srcObject holds a live stream
    camPending,     \* getUserMedia requests of the mounted instance still pending
    camOrphan,      \* pending getUserMedia requests of unmounted instances
    leaked,         \* live streams no video element refers to
    geoCapable,     \* navigator.geolocation exists
    run,            \* the runs: one per handleFileUpload / shutter click
    lastRecord      \* the record the last step handed to onResult, if it did

vars == <<view, profiles, history, inst, source, isAnalyzing, batchProgress, error,
          timerRef, intervals, srcObject, camPending, camOrphan, leaked,
          geoCapable, run, lastRecord>>

camVars == <<srcObject, camPending, camOrphan, leaked>>

\* no list has been passed to analyzePlantWithContext yet
NotSent == {Undefined}

FreeRun == [pc |-> "free", kind |-> "none", n |-> 0, i |-> 0, inst |-> 0,
            profs |-> {}, bp |-> Null, item |-> [k \in Items |-> "none"],
            waited |-> 0, attempts |-> <<>>, errs |-> 0, calls |-> 0,
            inflight |-> 0, recs |-> 0, stream |-> FALSE, reported |-> Null,
            sent |-> NotSent, seen |-> {}, called |-> 0]

\* PlantAnalysis, reduced to what the claims read; NoRecord: none handed over yet
\* respFields, profs: the fields of the response it was built from and the
\* profile set of the call that returned it
\* analysisTime is a fraction of seconds; geoMs, callMs: the item's two waits
\* Analyze.tsx line 93: the divisor of durationInSeconds
MsPerSecond == 1000

NoRecord == [run |-> 0, item |-> 0, fields |-> {}, matchedProfileId |-> Undefined,
             coords |-> FALSE, respFields |-> {}, profs |-> {},
             analysisTime |-> [num |-> 0, den |-> MsPerSecond],
             geoMs |-> 0, callMs |-> 0]

\* ---------------------------------------------------------------- helpers
Min(a, b) == IF a < b THEN a ELSE b

\* The state a run's continuation can write, as one value.
World == [isAnalyzing |-> isAnalyzing, batchProgress |-> batchProgress,
          error |-> error, timerRef |-> timerRef, intervals |-> intervals,
          run |-> run, history |-> history, lastRecord |-> NoRecord]

Install(w) ==
    /\ isAnalyzing' = w.isAnalyzing
    /\ batchProgress' = w.batchProgress
    /\ error' = w.error
    /\ timerRef' = w.timerRef
    /\ intervals' = w.intervals
    /\ run' = w.run
    /\ history' = w.history
    /\ lastRecord' = w.lastRecord

\* A state setter of an instance that is no longer mounted changes nothing.
Live(w, r) == view = "ANALYZE" /\ w.run[r].inst = inst

SetIsAnalyzing(w, r, v) == IF Live(w, r) THEN [w EXCEPT !.isAnalyzing = v] ELSE w

\* setBatchProgress; reported: the value the run passed to it last
SetBatchProgress(w, r, v) ==
    LET w1 == [w EXCEPT !.run[r].reported = v]
    IN  IF Live(w, r) THEN [w1 EXCEPT !.batchProgress = v] ELSE w1

\* setError; errs counts the run's calls with a message
SetError(w, r, msg) ==
    LET w1 == IF Live(w, r) THEN [w EXCEPT !.error = msg] ELSE w
    IN  IF msg = NoError THEN w1 ELSE [w1 EXCEPT !.run[r].errs = @ + 1]

SetItem(w, r, k, v) == [w EXCEPT !.run[r].item[k] = v]

\* timerRef.current && clearInterval(timerRef.current)
ClearTimer(w, r) ==
    LET ref == w.timerRef[w.run[r].inst]
    IN  IF ref # Null THEN [w EXCEPT !.intervals = @ \ {ref}] ELSE w

\* lines 75-78: the 10 ms interval of item k
StartInterval(w, r, k) ==
    LET w1 == ClearTimer(w, r)
    IN  [w1 EXCEPT !.intervals = @ \cup {<<r, k>>},
                   !.timerRef[w.run[r].inst] = <<r, k>>]

\* lines 111-119
FinallyBlock(w, r) ==
    LET bp == w.run[r].bp
    IN  IF bp = Null \/ bp[1] = bp[2]
        THEN SetIsAnalyzing([ClearTimer(w, r) EXCEPT !.timerRef[w.run[r].inst] = Null],
                            r, FALSE)
        ELSE w

\* the catch block rethrowing: the error leaves captureAndAnalyze and ends the
\* caller's loop
CatchBlockRethrows(w, r, k, msg) ==
    [SetItem(SetError(w, r, msg), r, k, "fail") EXCEPT !.run[r].pc = "done"]

\* lines 108-110: err.message || "Failed to analyze plant" is never empty
CatchBlock(w, r, k, msg) == SetItem(SetError(w, r, msg), r, k, "fail")

\* what history keeps of a record: the run and item stand for its id; onResult
\* is handed no isFavorite and no isIncorrect (Analyze.tsx lines 95-106)
Entry(rec) == [run |-> rec.run, item |-> rec.item, isFavorite |-> FALSE,
               isIncorrect |-> FALSE]

\* the record put at the end of the list
HandleAnalysisResultAtEnd(w, rec) ==
    [w EXCEPT !.history = @ \o <<Entry(rec)>>, !.lastRecord = rec]

\* App.handleAnalysisResult: setHistory(prev => [result, ...prev])
HandleAnalysisResult(w, rec) ==
    [w EXCEPT !.history = <<Entry(rec)>> \o @, !.lastRecord = rec]

\* line 144 without its await
AwaitItemMissing == FALSE

\* line 144: the loop awaits captureAndAnalyze before its next iteration
AwaitItem == TRUE

\* the loop going to its next file without reporting the progress
LoopAdvanceNoReport(w, r) ==
    LET R == w.run[r]
    IN  IF R.i < R.n
        THEN [w EXCEPT !.run[r].i = R.i + 1, !.run[r].pc = "read"]
        ELSE SetIsAnalyzing(SetBatchProgress([w EXCEPT !.run[r].pc = "done"], r, Null),
                            r, FALSE)

\* lines 133-134 and 147-148: the loop after item i returned
LoopAdvance(w, r) ==
    LET R == w.run[r]
    IN  IF R.i < R.n
        THEN SetBatchProgress([w EXCEPT !.run[r].i = R.i + 1, !.run[r].pc = "read"],
                              r, <<R.i + 1, R.n>>)
        ELSE SetIsAnalyzing(SetBatchProgress([w EXCEPT !.run[r].pc = "done"], r, Null),
                            r, FALSE)

\* what the caller of captureAndAnalyze does once item k has returned
Returned(w, r, k) ==
    LET R == w.run[r]
    IN  IF R.kind = "camera" THEN [w EXCEPT !.run[r].pc = "done"]
        ELSE IF R.pc = "wait" /\ R.i = k THEN LoopAdvance(w, r)
        ELSE w

\* captureAndAnalyze without the profiles.length check of lines 50-53
CaptureAndAnalyzeUnchecked(w, r, k, image) ==
    LET w0 == [w EXCEPT !.run[r].attempts = Append(@, k)]
    IN  IF ~image
        THEN SetItem(w0, r, k, "skip")
        ELSE LET w1 == StartInterval(SetError(SetIsAnalyzing(w0, r, TRUE), r, NoError),
                                     r, k)
             IN  IF geoCapable
                 THEN [SetItem(w1, r, k, "geo") EXCEPT !.run[r].waited = 0]
                 ELSE FinallyBlock(CatchBlock(w1, r, k, ErrThrown), r)

\* lines 49-87: captureAndAnalyze up to its first await; image: finalImage is set
CaptureAndAnalyze(w, r, k, image) ==
    LET w0 == [w EXCEPT !.run[r].attempts = Append(@, k)]
    IN  IF w0.run[r].profs = {}
        THEN SetItem(SetError(w0, r, ErrEmptyDb), r, k, "fail")
        ELSE IF ~image
        THEN SetItem(w0, r, k, "skip")
        ELSE LET w1 == StartInterval(SetError(SetIsAnalyzing(w0, r, TRUE), r, NoError),
                                     r, k)
             IN  IF geoCapable
                 THEN [SetItem(w1, r, k, "geo") EXCEPT !.run[r].waited = 0]
                 ELSE FinallyBlock(CatchBlock(w1, r, k, ErrThrown), r)

ItemFinal(w, r, k) == w.run[r].item[k] \in {"ok", "fail", "skip"}

Init ==
    /\ view = "OTHER"
    /\ profiles \in SUBSET ProfileIds
    /\ history = <<>>
    /\ inst = 0
    /\ source = "upload"
    /\ isAnalyzing = FALSE
    /\ batchProgress = Null
    /\ error = NoError
    /\ timerRef = [k \in Insts |-> Null]
    /\ intervals = {}
    /\ srcObject = FALSE
    /\ camPending = 0
    /\ camOrphan = 0
    /\ leaked = 0
    /\ geoCapable \in BOOLEAN
    /\ run = [r \in Runs |-> FreeRun]
    /\ lastRecord = NoRecord
\* ------------------------------------------------- classification client
\* result.text of a response: empty, not JSON, the JSON null, or a JSON object
\* with some of the schema's fields and a matchedProfileId
PlainText(shape) == [shape |-> shape, fields |-> {}, id |-> Undefined]
ObjectText(fields, id) == [shape |-> "object", fields |-> fields, id |-> id]
ResponseIds == {"p1", Unknown, "zz9"}
Texts == {PlainText(s) : s \in {"empty", "garbage", "null"}}
         \cup {ObjectText(RequiredFields, id) : id \in ResponseIds}
         \cup {ObjectText(RequiredFields \ {"confidence"}, "p1")}
Responses == {[kind |-> "reject", text |-> PlainText("empty")]}
             \cup {[kind |-> "resolve", text |-> t] : t \in Texts}

\* JSON.parse: throws on text that is not JSON, else the value as written
JSONParse(text) == [ok |-> text.shape \in {"null", "object"}, value |-> text]

\* part_000 lines 55-85: what the awaited generateContent turns into
AnalyzeReturn(resp) ==
    IF resp.kind = "reject"
    THEN [ok |-> FALSE, err |-> ErrThrown, value |-> resp.text]
    ELSE IF resp.text.shape = "empty"
    THEN [ok |-> FALSE, err |-> ErrIdentification, value |-> resp.text]
    ELSE IF ~JSONParse(resp.text).ok
    THEN [ok |-> FALSE, err |-> ErrThrown, value |-> resp.text]
    ELSE [ok |-> TRUE, err |-> NoError, value |-> JSONParse(resp.text).value]

\* the call made with the profile list of the latest render
IssueCallLive(w, r, k, coords) ==
    LET w0 == [w EXCEPT !.run[r].sent = profiles, !.run[r].seen = profiles]
    IN  IF profiles = {}
        THEN FinallyBlock(CatchBlock(w0, r, k, ErrEmptyDbService), r)
        ELSE [SetItem(w0, r, k, IF coords THEN "callWith" ELSE "callNone")
                EXCEPT !.run[r].calls = @ + 1, !.run[r].inflight = @ + 1,
                       !.run[r].called = 0]

\* Analyze.tsx line 89 and part_000 lines 35-81: analyzePlantWithContext up to
\* its await. sent: the profile list passed to it; seen: the list App holds then
IssueCall(w, r, k, coords) ==
    LET w0 == [w EXCEPT !.run[r].sent = w.run[r].profs, !.run[r].seen = profiles]
    IN  IF w0.run[r].profs = {}
        THEN FinallyBlock(CatchBlock(w0, r, k, ErrEmptyDbService), r)
        ELSE [SetItem(w0, r, k, IF coords THEN "callWith" ELSE "callNone")
                EXCEPT !.run[r].calls = @ + 1, !.run[r].inflight = @ + 1,
                       !.run[r].called = 0]

\* line 73: startTime, the origin of the item's clock
StartTime == 0

\* performance.now() of the item's clock: the time its two waits have taken
Now(R) == StartTime + R.waited * TickMs + R.called * CallTickMs

\* the duration measured from the moment the call is issued
AnalysisTimeFromCall(R) == [num |-> R.called * CallTickMs, den |-> MsPerSecond]

\* lines 73, 90, 93: (endTime - startTime) / 1000, as a fraction
AnalysisTime(R) == [num |-> Now(R) - StartTime, den |-> MsPerSecond]

\* Analyze.tsx lines 95-106: the fields read off result; description is not
CopiedFields == {"name", "scientificName", "isInvasive", "confidence",
                 "matchedProfileId"}

BuildRecord(w, r, k, value) ==
    [run |-> r, item |-> k, fields |-> value.fields \cap CopiedFields,
     matchedProfileId |-> IF "matchedProfileId" \in value.fields
                          THEN value.id ELSE Undefined,
     coords |-> w.run[r].item[k] = "callWith", respFields |-> value.fields,
     profs |-> w.run[r].profs, analysisTime |-> AnalysisTime(w.run[r]),
     geoMs |-> w.run[r].waited * TickMs, callMs |-> w.run[r].called * CallTickMs]

\* captureAndAnalyze keeping the record for the end of the run instead of
\* handing it to onResult
AfterCallDeferred(w, r, k, resp) ==
    LET w0 == [w EXCEPT !.run[r].inflight = @ - 1]
        res == AnalyzeReturn(resp)
    IN  IF ~res.ok THEN FinallyBlock(CatchBlock(w0, r, k, res.err), r)
        ELSE IF res.value.shape = "null"
        THEN FinallyBlock(CatchBlock(w0, r, k, ErrThrown), r)
        ELSE FinallyBlock(SetItem(w0, r, k, "ok"), r)

\* Analyze.tsx lines 89-119: captureAndAnalyze after the call has settled; the
\* call's clock and the list App held are forgotten with it
AfterCall(w, r, k, resp) ==
    LET w0 == [w EXCEPT !.run[r].inflight = @ - 1]
        res == AnalyzeReturn(resp)
        w1 == IF ~res.ok THEN FinallyBlock(CatchBlock(w0, r, k, res.err), r)
              ELSE IF res.value.shape = "null"
              THEN FinallyBlock(CatchBlock(w0, r, k, ErrThrown), r)
              ELSE FinallyBlock(
                     SetItem([HandleAnalysisResult(w0, BuildRecord(w0, r, k, res.value))
                                EXCEPT !.run[r].recs = @ + 1], r, k, "ok"), r)
    IN  [w1 EXCEPT !.run[r].called = 0, !.run[r].seen = {}]

\* ------------------------------------------------------------ the camera
\* stopCamera (lines 41-47). ref: videoRef.current still refers to the video
\* element when the effect cleanup runs. React detaches the ref of a removed
\* element in the commit, before or after the cleanup depending on its version.
StopCamera(ref) ==
    IF srcObject /\ ~ref
    THEN /\ leaked' = Min(leaked + 1, MaxLeak)
         /\ srcObject' = FALSE
    ELSE /\ leaked' = leaked
         /\ srcObject' = FALSE

\* ---------------------------------------------------------------- actions
\* Layout: the user opens the Analyze view; a fresh instance mounts
MountAnalyze ==
    /\ view = "OTHER"
    /\ inst < MaxMounts
    /\ view' = "ANALYZE"
    /\ inst' = inst + 1
    /\ source' = "upload"
    /\ isAnalyzing' = FALSE
    /\ batchProgress' = Null
    /\ error' = NoError
    /\ UNCHANGED <<profiles, history, timerRef, intervals, camVars, geoCapable,
                   run>>
    /\ lastRecord' = NoRecord

\* Layout: the user leaves the Analyze view; the effect cleanup runs stopCamera
\* and the instance's state is discarded (its requests and runs go on)
UnmountAnalyze ==
    /\ view = "ANALYZE"
    /\ view' = "OTHER"
    /\ \E ref \in BOOLEAN : StopCamera(ref)
    /\ camOrphan' = Min(camOrphan + camPending, MaxPendingCam)
    /\ camPending' = 0
    /\ source' = "upload"
    /\ isAnalyzing' = FALSE
    /\ batchProgress' = Null
    /\ error' = NoError
    /\ UNCHANGED <<profiles, history, inst, timerRef, intervals, geoCapable, run>>
    /\ lastRecord' = NoRecord

\* lines 160-166 and the effect of lines 23-30
SwitchSource(s) ==
    /\ view = "ANALYZE"
    /\ source' = s
    /\ batchProgress' = Null
    /\ error' = NoError
    /\ IF s = source THEN UNCHANGED camVars
       ELSE IF s = "camera"
       THEN /\ camPending' = Min(camPending + 1, MaxPendingCam)
            /\ UNCHANGED <<srcObject, camOrphan, leaked>>
       ELSE IF source = "camera"
       THEN /\ \E ref \in BOOLEAN : StopCamera(ref)
            /\ UNCHANGED <<camPending, camOrphan>>
       ELSE UNCHANGED camVars
    /\ UNCHANGED <<view, profiles, history, inst, isAnalyzing, timerRef, intervals,
                   geoCapable, run>>
    /\ lastRecord' = NoRecord

\* lines 34-35: getUserMedia resolves for the mounted instance
CamResolve ==
    /\ camPending > 0
    /\ camPending' = camPending - 1
    /\ IF source = "camera"
       THEN /\ srcObject' = TRUE
            /\ leaked' = IF srcObject THEN Min(leaked + 1, MaxLeak) ELSE leaked
       ELSE /\ srcObject' = srcObject
            /\ leaked' = Min(leaked + 1, MaxLeak)
    /\ UNCHANGED <<view, profiles, history, inst, source, isAnalyzing,
                   batchProgress, error, timerRef, intervals, camOrphan,
                   geoCapable, run>>
    /\ lastRecord' = NoRecord

\* lines 36-38: getUserMedia rejects for the mounted instance
CamReject ==
    /\ camPending > 0
    /\ camPending' = camPending - 1
    /\ error' = ErrCamera
    /\ UNCHANGED <<view, profiles, history, inst, source, isAnalyzing,
                   batchProgress, timerRef, intervals, srcObject, camOrphan,
                   leaked, geoCapable, run>>
    /\ lastRecord' = NoRecord

\* getUserMedia settles for an instance that has unmounted: videoRef.current
\* is null and setError does nothing
OrphanSettle(ok) ==
    /\ camOrphan > 0
    /\ camOrphan' = camOrphan - 1
    /\ leaked' = IF ok THEN Min(leaked + 1, MaxLeak) ELSE leaked
    /\ UNCHANGED <<view, profiles, history, inst, source, isAnalyzing,
                   batchProgress, error, timerRef, intervals, srcObject,
                   camPending, geoCapable, run>>
    /\ lastRecord' = NoRecord

\* App.addProfile / App.deleteProfile, from the Training view
AddProfile(p) ==
    /\ view = "OTHER"
    /\ p \notin profiles
    /\ profiles' = profiles \cup {p}
    /\ UNCHANGED <<view, history, inst, source, isAnalyzing, batchProgress, error,
                   timerRef, intervals, camVars, geoCapable, run>>
    /\ lastRecord' = NoRecord

DeleteProfile(p) ==
    /\ view = "OTHER"
    /\ p \in profiles
    /\ profiles' = profiles \ {p}
    /\ UNCHANGED <<view, history, inst, source, isAnalyzing, batchProgress, error,
                   timerRef, intervals, camVars, geoCapable, run>>
    /\ lastRecord' = NoRecord

\* App.clearHistory (lines 46-48), from the log view
ClearHistory ==
    /\ view = "OTHER"
    /\ history' = <<>>
    /\ UNCHANGED <<view, profiles, inst, source, isAnalyzing, batchProgress, error,
                   timerRef, intervals, camVars, geoCapable, run>>
    /\ lastRecord' = NoRecord

\* history.filter(item => !selectedIds.has(item.id))
Keep(h, sel) ==
    LET F[x \in 0..Len(h)] ==
            IF x = 0 THEN <<>>
            ELSE IF x \in sel THEN F[x - 1] ELSE Append(F[x - 1], h[x])
    IN  F[Len(h)]

\* History.applyBulkAction (part_002 lines 38-56) and App.updateHistory (lines
\* 50-52); sel: the positions of the entries whose ids are selected
ApplyBulkAction(action, sel) ==
    /\ view = "OTHER"
    /\ sel \subseteq 1..Len(history)
    /\ history' =
          IF action = "delete" THEN Keep(history, sel)
          ELSE [x \in 1..Len(history) |->
                  IF x \notin sel THEN history[x]
                  ELSE IF action = "favorite"
                  THEN [history[x] EXCEPT !.isFavorite = ~@]
                  ELSE [history[x] EXCEPT !.isIncorrect = ~@]]
    /\ UNCHANGED <<view, profiles, inst, source, isAnalyzing, batchProgress, error,
                   timerRef, intervals, camVars, geoCapable, run>>
    /\ lastRecord' = NoRecord

\* the next unused run
NextRun(r) == run[r].pc = "free" /\ \A q \in Runs : q < r => run[q].pc # "free"

\* the images of the runs started so far
Started == LET Sum[r \in 0..MaxRuns] == IF r = 0 THEN 0 ELSE Sum[r - 1] + run[r].n
           IN  Sum[MaxRuns]

NewRun(kind, n) ==
    [FreeRun EXCEPT !.kind = kind, !.n = n, !.i = 1, !.inst = inst,
                    !.profs = profiles, !.bp = batchProgress,
                    !.stream = srcObject]

runFrame == <<view, profiles, inst, source, camVars, geoCapable>>

\* lines 122-137: handleFileUpload up to the first file read, for a selection of
\* n files (none: it returns at once). The overlay of lines 178-205 covers both
\* file inputs while isAnalyzing; the Single Image input takes one file.
HandleFileUpload(r, n) ==
    /\ view = "ANALYZE"
    /\ ~isAnalyzing
    /\ source \in {"upload", "folder"}
    /\ source = "upload" => n = 1
    /\ NextRun(r)
    /\ Started + n <= MaxTotalFiles
    /\ LET w0 == [World EXCEPT !.run[r] = [NewRun("files", n) EXCEPT !.pc = "read"]]
           w1 == SetBatchProgress(SetError(SetIsAnalyzing(w0, r, TRUE), r, NoError),
                                  r, <<0, n>>)
       IN  Install(SetBatchProgress(w1, r, <<1, n>>))
    /\ UNCHANGED runFrame

\* lines 137-144: reader.onload resolves and captureAndAnalyze(base64) starts
FileReadDone(r) ==
    /\ run[r].pc = "read"
    /\ LET k == run[r].i
           w1 == CaptureAndAnalyze(World, r, k, TRUE)
       IN  Install(IF ItemFinal(w1, r, k) \/ ~AwaitItem
                   THEN LoopAdvance(w1, r)
                   ELSE [w1 EXCEPT !.run[r].pc = "wait"])
    /\ UNCHANGED runFrame

\* lines 137-142: the read fails; no onerror handler, the promise never settles
FileReadError(r) ==
    /\ run[r].pc = "read"
    /\ run' = [run EXCEPT ![r].pc = "stuck"]
    /\ UNCHANGED <<view, profiles, history, inst, source, isAnalyzing,
                   batchProgress, error, timerRef, intervals, camVars, geoCapable>>
    /\ lastRecord' = NoRecord

\* lines 214-216: the shutter button, disabled while isAnalyzing, calls
\* captureAndAnalyze(); ctx: canvas.getContext('2d') is not null (lines 58-65)
ShutterClick(r, ctx) ==
    /\ view = "ANALYZE"
    /\ source = "camera"
    /\ ~isAnalyzing
    /\ NextRun(r)
    /\ Started + 1 <= MaxTotalFiles
    /\ LET w0 == [World EXCEPT !.run[r] = [NewRun("camera", 1) EXCEPT !.pc = "wait"]]
           w1 == CaptureAndAnalyze(w0, r, 1, ctx)
       IN  Install(IF ItemFinal(w1, r, 1) THEN Returned(w1, r, 1) ELSE w1)
    /\ UNCHANGED runFrame

\* lines 81-89: a geolocation callback runs, then the classification call is issued
GeoSettles(r, k, position) ==
    /\ run[r].item[k] = "geo"
    /\ run[r].waited * TickMs <= GeoTimeout
    /\ LET w1 == IssueCall(World, r, k, position)
       IN  Install(IF ItemFinal(w1, r, k) THEN Returned(w1, r, k) ELSE w1)
    /\ UNCHANGED runFrame

\* time passes while getCurrentPosition has called nothing back
GeoTick(r, k) ==
    /\ run[r].item[k] = "geo"
    /\ run[r].waited < MaxWaitTicks
    /\ run' = [run EXCEPT ![r].waited = @ + 1]
    /\ UNCHANGED <<view, profiles, history, inst, source, isAnalyzing,
                   batchProgress, error, timerRef, intervals, camVars, geoCapable>>
    /\ lastRecord' = NoRecord

\* time passes while generateContent is awaited (line 89)
CallTick(r, k) ==
    /\ run[r].item[k] \in {"callWith", "callNone"}
    /\ run[r].called < MaxCallTicks
    /\ run' = [run EXCEPT ![r].called = @ + 1]
    /\ UNCHANGED <<view, profiles, history, inst, source, isAnalyzing,
                   batchProgress, error, timerRef, intervals, camVars, geoCapable>>
    /\ lastRecord' = NoRecord

\* lines 89-119: generateContent settles
ServiceResponds(r, k, resp) ==
    /\ run[r].item[k] \in {"callWith", "callNone"}
    /\ Install(Returned(AfterCall(World, r, k, resp), r, k))
    /\ UNCHANGED runFrame

\* The user's events with the camera and the settling of getUserMedia.
NextCamera ==
    \/ MountAnalyze
    \/ UnmountAnalyze
    \/ \E s \in Sources : SwitchSource(s)
    \/ CamResolve
    \/ CamReject
    \/ \E ok \in BOOLEAN : OrphanSettle(ok)

\* The runs, with every user event; the camera permission prompt stays open
\* (no getUserMedia request settles).
Next ==
    \/ MountAnalyze
    \/ UnmountAnalyze
    \/ \E s \in Sources : SwitchSource(s)
    \/ \E p \in ProfileIds : AddProfile(p)
    \/ \E p \in ProfileIds : DeleteProfile(p)
    \/ \E r \in Runs, n \in 1..MaxFiles : HandleFileUpload(r, n)
    \/ \E r \in Runs : FileReadDone(r)
    \/ \E r \in Runs : FileReadError(r)
    \/ \E r \in Runs, ctx \in BOOLEAN : ShutterClick(r, ctx)
    \/ \E r \in Runs, k \in Items, position \in BOOLEAN : GeoSettles(r, k, position)
    \/ \E r \in Runs, k \in Items : GeoTick(r, k)
    \/ \E r \in Runs, k \in Items, resp \in Responses : ServiceResponds(r, k, resp)

\* The single-image uploads of one mounted instance with the time their
\* calls take.
NextTimed ==
    \/ MountAnalyze
    \/ \E r \in Runs, n \in 1..MaxFiles : HandleFileUpload(r, n)
    \/ \E r \in Runs : FileReadDone(r)
    \/ \E r \in Runs, k \in Items, position \in BOOLEAN : GeoSettles(r, k, position)
    \/ \E r \in Runs, k \in Items : GeoTick(r, k)
    \/ \E r \in Runs, k \in Items : CallTick(r, k)
    \/ \E r \in Runs, k \in Items, resp \in Responses : ServiceResponds(r, k, resp)

\* The uploads of one instance with the user's actions on the log.
NextSink ==
    \/ MountAnalyze
    \/ UnmountAnalyze
    \/ \E s \in {"upload", "folder"} : SwitchSource(s)
    \/ \E r \in Runs, n \in 1..MaxFiles : HandleFileUpload(r, n)
    \/ \E r \in Runs : FileReadDone(r)
    \/ \E r \in Runs, k \in Items, position \in BOOLEAN : GeoSettles(r, k, position)
    \/ \E r \in Runs, k \in Items, resp \in Responses : ServiceResponds(r, k, resp)
    \/ ClearHistory
    \/ \E action \in BulkActions, sel \in SUBSET (1..MaxTotalFiles) :
          ApplyBulkAction(action, sel)

Spec == Init /\ [][Next]_vars

SpecSink == Init /\ [][NextSink]_vars

SpecTimed == Init /\ [][NextTimed]_vars

SpecCamera == Init /\ [][NextCamera]_vars

\* ------------------------------------------------------------ properties
ActiveStreams == (IF srcObject THEN 1 ELSE 0) + leaked

OkItems(r) == {k \in Items : run[r].item[k] = "ok"}
FailItems(r) == {k \in Items : run[r].item[k] = "fail"}
InFlight(r, k) == run[r].item[k] \in {"geo", "callWith", "callNone"}
Finalized(r, k) == run[r].item[k] \in {"ok", "fail", "skip"}
UpTo(n) == [k \in 1..n |-> k]

\* C1: a batch run with profiles that has ended attempted every index 1..n once
\* and in order, whatever failed, and handed onResult as many records as items
\* were classified; until then the attempts are 1, 2, ... without gap or repeat.
C1_BatchIsolatesFailures ==
    \A r \in Runs :
        (run[r].kind = "files" /\ run[r].profs # {}) =>
            /\ run[r].attempts = UpTo(Len(run[r].attempts))
            /\ Len(run[r].attempts) <= run[r].n
            /\ run[r].recs = Cardinality(OkItems(r))
            /\ run[r].pc = "done" =>
                  /\ run[r].attempts = UpTo(run[r].n)
                  /\ \A k \in 1..run[r].n : Finalized(r, k)

\* a run of three whose second classification failed, the others succeeding
C1_Witness ==
    \E r \in Runs :
        /\ run[r].kind = "files" /\ run[r].n = 3 /\ run[r].pc = "done"
        /\ run[r].calls = 3 /\ run[r].recs = 2
        /\ run[r].item[1] = "ok" /\ run[r].item[2] = "fail" /\ run[r].item[3] = "ok"

SingleImage(R) == R.kind = "camera" \/ (R.kind = "files" /\ R.n = 1)

\* the one item failed in classify: on its empty profile set, or in its call
ClassifyFailed(R) == R.item[1] = "fail" /\ (R.profs = {} \/ R.calls = 1)

\* C2: when a single-image run whose classification failed returns, it has
\* handed over no record, called setError with a message once, attempted its
\* one item once, and isAnalyzing is false.
C2_SingleFailureHalts ==
    [][\A r \in Runs :
          (/\ run[r].pc # "done" /\ run'[r].pc = "done"
           /\ SingleImage(run'[r]) /\ ClassifyFailed(run'[r])) =>
              /\ run'[r].recs = 0
              /\ run'[r].errs = 1
              /\ run'[r].attempts = <<1>>
              /\ isAnalyzing' = FALSE]_vars

\* C3, the state part: a run whose profile set is empty has issued no
\* classification call and handed over no record; each of its attempts failed
\* with a message.
C3_EmptyNoCall ==
    \A r \in Runs :
        run[r].profs = {} =>
            /\ run[r].calls = 0 /\ run[r].inflight = 0 /\ run[r].recs = 0
            /\ \A k \in Items : run[r].item[k] \notin {"callWith", "callNone", "ok"}
            /\ run[r].errs = Len(run[r].attempts)

\* C3, the report: the step in which such a run attempts an item leaves an
\* empty-database message in error (while its instance is mounted).
C3_EmptyReported ==
    [][\A r \in Runs :
          (/\ run'[r].profs = {} /\ Len(run'[r].attempts) > Len(run[r].attempts)
           /\ view' = "ANALYZE" /\ run'[r].inst = inst') =>
              error' \in {ErrEmptyDb, ErrEmptyDbService}]_vars

\* C3: with an empty profile set no classification call is ever issued, no
\* record is produced, and the failure is reported as an empty-database error.
C3_EmptyDatabase == []C3_EmptyNoCall /\ C3_EmptyReported

\* a batch over an empty profile set that has ended
C3_Witness ==
    \E r \in Runs :
        /\ run[r].profs = {} /\ run[r].kind = "files" /\ run[r].n >= 2
        /\ run[r].pc = "done" /\ run[r].errs = run[r].n
        /\ error = ErrEmptyDb

\* C4: no item waits for geolocation longer than the timeout.
C4_GeoWaitBounded ==
    \A r \in Runs, k \in Items :
        run[r].item[k] = "geo" => run[r].waited * TickMs <= GeoTimeout

\* C5: geolocation never surfaces an error nor keeps an item from its
\* classification: a run with profiles shows only the errors of classification
\* calls, and every item it attempted with an image has had its call issued
\* unless it is still waiting for geolocation.
C5_GeoAbsorbed ==
    \A r \in Runs :
        run[r].profs # {} =>
            /\ run[r].errs <= run[r].calls
            /\ Len(run[r].attempts) =
                  run[r].calls + Cardinality({k \in Items :
                                                run[r].item[k] \in {"geo", "skip"}})

\* C6: at most one acquired camera stream is live at any time.
C6_OneStream == ActiveStreams <= 1

\* C7: out of camera mode (or unmounted) with every getUserMedia request
\* settled, no acquired stream is live.
C7_Released ==
    (/\ source # "camera" \/ view # "ANALYZE"
     /\ camPending = 0 /\ camOrphan = 0) => ActiveStreams = 0

\* C8: the matchedProfileId of every record handed to onResult is the id of a
\* profile passed to the call, or "unknown".
C8_NoForeignId ==
    lastRecord # NoRecord =>
        lastRecord.matchedProfileId \in lastRecord.profs \cup {Unknown}

\* C9: no record is built from a response lacking a required field, and every
\* field a record takes from the outcome is present.
C9_NoPartialRecord ==
    lastRecord # NoRecord =>
        /\ RequiredFields \subseteq lastRecord.respFields
        /\ CopiedFields \subseteq lastRecord.fields

\* C10: within a run nothing of item k (its file read, geolocation wait or
\* classification call) is under way before every earlier item is finalized,
\* and at most one classification call of the run is in flight.
C10_Sequential ==
    \A r \in Runs :
        /\ run[r].inflight <= 1
        /\ \A k \in Items :
              (InFlight(r, k) \/ (run[r].pc = "read" /\ run[r].i = k)) =>
                  \A j \in 1..(k - 1) : Finalized(r, j)

\* the second item's call is in flight after the first item failed
C10_Witness ==
    \E r \in Runs :
        /\ run[r].item[2] \in {"callWith", "callNone"} /\ run[r].inflight = 1
        /\ run[r].item[1] = "fail"
SkipItems(r) == {k \in Items : run[r].item[k] = "skip"}
Delivered(r, k) ==
    \E x \in 1..Len(history) : history[x].run = r /\ history[x].item = k

\* C11: geolocation and classification are launched together: while an item's
\* geolocation wait is pending its classification call is already in flight.
C11_LaunchedTogether ==
    \A r \in Runs, k \in Items :
        run[r].item[k] = "geo" => run[r].inflight >= 1

\* C14: the record of every item whose classification succeeded is in history
\* from the step its call settled in, whatever happens to later items.
C14_DeliveredAtOnce ==
    \A r \in Runs, k \in Items :
        run[r].item[k] = "ok" => Delivered(r, k)

\* the first item succeeded and the run hangs on the second file
C14_Witness ==
    \E r \in Runs :
        /\ run[r].item[1] = "ok" /\ run[r].pc = "stuck" /\ run[r].i = 2
        /\ Delivered(r, 1)

\* C15: every invocation of captureAndAnalyze that has returned produced one
\* record or one call of setError with a message, and not both.
C15_NoSilentDrop ==
    \A r \in Runs :
        /\ run[r].recs + run[r].errs =
              Cardinality({k \in Items : Finalized(r, k)})
        /\ \A k \in Items : run[r].item[k] # "skip"

\* C16: with profiles, an item never issues a second call, and a run that has
\* ended issued one call for each image it captured.
C16_OneCallPerItem ==
    \A r \in Runs :
        run[r].profs # {} =>
            /\ run[r].calls <= Len(run[r].attempts)
            /\ run[r].pc = "done" =>
                  run[r].calls = Len(run[r].attempts) - Cardinality(SkipItems(r))

\* C18: a batch run that has not ended is reading a file or waiting for the
\* geolocation or the call of an item: a file that cannot be read does not
\* leave it with nothing to wait for.
C18_BatchGoesOn ==
    \A r \in Runs :
        (run[r].kind = "files" /\ run[r].pc # "done") =>
            \/ run[r].pc = "read"
            \/ \E k \in Items : InFlight(r, k)

\* C20: a batch started with no profiles stops at its first failure: it
\* attempts one item and reads no further file.
C20_EmptyHaltsRun ==
    \A r \in Runs :
        (run[r].kind = "files" /\ run[r].profs = {}) =>
            Len(run[r].attempts) <= 1 /\ run[r].i <= 1
\* C12: the analysisTime of a record is the time from before the geolocation
\* wait to after the call, in seconds: it is not negative, not less than the
\* item's geolocation wait and not less than the duration of its call, and it
\* is the duration of the call when geolocation answers at once.
C12_ElapsedCoversWaits ==
    lastRecord.run # 0 =>
        LET t == lastRecord.analysisTime
        IN  /\ t.den = MsPerSecond
            /\ t.num >= 0
            /\ t.num * MsPerSecond >= lastRecord.geoMs * t.den
            /\ t.num * MsPerSecond >= lastRecord.callMs * t.den
            /\ lastRecord.geoMs = 0 =>
                  t.num * MsPerSecond = lastRecord.callMs * t.den

\* a record of an item that waited for geolocation and then for its call
C12_Witness ==
    lastRecord.run # 0 /\ lastRecord.geoMs > 0 /\ lastRecord.callMs > 0

C13_ReportedBeforeItem ==
    \A r \in Runs :
        run[r].kind = "files" =>
            /\ run[r].pc \in {"read", "wait", "stuck"} =>
                  /\ run[r].reported = <<run[r].i, run[r].n>>
                  /\ 1 <= run[r].i /\ run[r].i <= run[r].n
            /\ \A k \in Items :
                  (InFlight(r, k) \/ Finalized(r, k)) /\ run[r].pc # "done" =>
                      /\ run[r].reported # Null
                      /\ k <= run[r].reported[1]
                      /\ InFlight(r, k) => run[r].reported = <<k, run[r].n>>

C13_ReportedSteps ==
    [][\A r \in Runs :
          (run'[r].kind = "files" /\ run'[r].reported # run[r].reported) =>
              IF run[r].kind = "none"
              THEN run'[r].reported = <<1, run'[r].n>>
              ELSE IF run'[r].reported = Null
              THEN run[r].reported = <<run[r].n, run[r].n>>
              ELSE /\ run[r].reported # Null
                   /\ run'[r].reported = <<run[r].reported[1] + 1, run[r].n>>]_vars

\* C13: in a batch over n files the progress reported when item i is read and
\* processed is (i, n) with 1 <= i <= n; the reported value starts at (1, n),
\* goes up by one at a time with the same total, and is cleared after (n, n).
C13_ProgressReported == []C13_ReportedBeforeItem /\ C13_ReportedSteps

\* the third item of a batch is being processed under the report (3, n)
C13_Witness ==
    \E r \in Runs :
        /\ run[r].kind = "files" /\ run[r].n >= 3
        /\ InFlight(r, 3) /\ run[r].reported = <<3, run[r].n>>

\* C17: a camera capture made while the video element has no stream attached
\* produces no image: it waits for nothing, issues no call and emits no record.
C17_NoStreamNoCapture ==
    \A r \in Runs :
        (run[r].kind = "camera" /\ ~run[r].stream) =>
            /\ run[r].calls = 0 /\ run[r].recs = 0
            /\ \A k \in Items : ~InFlight(r, k) /\ run[r].item[k] # "ok"

C19_SnapshotSent ==
    \A r \in Runs : run[r].sent # NotSent => run[r].sent = run[r].profs

C19_RunKeepsProfiles ==
    [][/\ run' # run => profiles' = profiles
       /\ \A r \in Runs :
             (run[r].pc = "free" /\ run'[r].pc # "free") =>
                 run'[r].profs = profiles]_vars

\* C19: every call of a run is passed the profile list App held when the run
\* started, whatever list App holds when the call is made, and no step of a
\* run changes the list App holds.
C19_ProfilesSnapshot == []C19_SnapshotSent /\ C19_RunKeepsProfiles

\* a call in flight that was passed the run's list while App held another
C19_Witness ==
    \E r \in Runs, k \in Items :
        /\ run[r].item[k] \in {"callWith", "callNone"}
        /\ run[r].sent = run[r].profs /\ run[r].seen # run[r].profs
Active(r) == run[r].pc \in {"read", "wait"}
Mounted(r) == view = "ANALYZE" /\ run[r].inst = inst
Alone(r) == \A q \in Runs \ {r} : run[q].pc = "free"

\* C21: with geolocation available, a batch of the mounted instance that no
\* other run overlaps keeps isAnalyzing true from its first item until its last
\* item is finalized, and one interval is active while an item is pending.
C21_StaysRunning ==
    \A r \in Runs :
        (geoCapable /\ run[r].kind = "files" /\ Active(r) /\ Mounted(r)
           /\ Alone(r)) =>
            /\ isAnalyzing
            /\ \A k \in Items : InFlight(r, k) => intervals = {<<r, k>>}

\* C22: when a batch of the mounted instance ends with a failed item, the
\* error state is not null at that moment.
C22_FailureStillShown ==
    [][\A r \in Runs :
          (/\ run[r].kind = "files" /\ Active(r) /\ Alone(r)
           /\ run'[r].pc = "done" /\ view' = "ANALYZE" /\ run'[r].inst = inst'
           /\ geoCapable
           /\ \E k \in Items : run'[r].item[k] = "fail") =>
              error' # NoError]_vars

\* C23: at most one run is in progress, and the calls in flight belong to one
\* run.
C23_OneRunActive ==
    geoCapable =>
    /\ Cardinality({r \in Runs : Active(r)}) <= 1
    /\ Cardinality({r \in Runs : run[r].inflight >= 1}) <= 1

\* C24: with geolocation available, when every run has ended no interval is
\* active and timerRef.current is null.
C24_NoIntervalLeft ==
    (geoCapable /\ \A r \in Runs : run[r].pc \in {"free", "done"}) =>
        /\ intervals = {}
        /\ \A j \in DOMAIN timerRef : timerRef[j] = Null
C25_OnlyAdds ==
    [][lastRecord' # NoRecord => history' = <<Entry(lastRecord')>> \o history]_vars

C25_Once ==
    \A x, y \in 1..Len(history) :
        (history[x].run = history[y].run /\ history[x].item = history[y].item) =>
            x = y

\* C25: a step that hands a record to onResult puts it at the front of
\* history and leaves the records stored before, their order and their flags
\* as they were; no record is in history twice.
C25_SinkOnlyAdds == C25_OnlyAdds /\ []C25_Once

\* a record arrives after the Analyze view was left, in front of a record
\* that was marked as a favourite
C25_Witness ==
    /\ lastRecord # NoRecord /\ view = "OTHER"
    /\ Len(history) >= 2
    /\ history[1] = Entry(lastRecord)
    /\ history[2].isFavorite
====
